---- MODULE Spec2Model ----
(***************************************************************************)
(* A model of the three tutorial notebooks of the repository               *)
(*   src/rasterio-tutorial/rasterio-tutorial.ipynb                         *)
(*   src/geopandas-tutorial/geopandas-tutorial.ipynb                       *)
(*   src/geoalchemy-tutorial/geoalchemy-tutorial.ipynb                     *)
(* run cell by cell, in order, in a fresh kernel.  The state is the        *)
(* kernel's namespace (dataset handles, arrays, frames, the database       *)
(* session) and the backing stores the cells read and write (raster and    *)
(* vector files, the spatial table).  A cell that raises leaves the scopes *)
(* it entered (each `with` closes its dataset) and the run goes on with    *)
(* the next cell; stopping at the failing cell is a prefix of such a run.  *)
(*                                                                         *)
(* World coordinates are integers in quarter-pixel units: a pixel is `res`  *)
(* units wide (res = 4 in the input files), the affine transform of a      *)
(* north-up raster is (ox, oy, res): column c (from 0) spans               *)
(* [ox + res*c, ox + res*(c+1)], row r (from 0) spans                      *)
(* [oy - res*(r+1), oy - res*r].                                           *)
(***************************************************************************)
EXTENDS Integers, Sequences, FiniteSets, TLC

\* Bounds of the model.
MaxDim == 2      \* rasters have 1..MaxDim rows and columns
MaxVal == 1      \* samples are 0..MaxVal

VARIABLES
    nb,          \* the notebook this kernel runs
    pc,          \* the statement the kernel is at
    store,       \* file name -> file (the backing stores on disk)
    store0,      \* the files as they were before the run (never changes)
    hd,          \* handle variable (src, dst, red, ...) -> dataset handle
    arr,         \* array variable (data, array, ...) -> numpy array
    cube,        \* 3-d array variable (out_image, stack) -> numpy array
    frames,      \* frame variable (gdf, zones, ...) -> GeoDataFrame
    meta,        \* scalars of the namespace: kwargs, geo, out_transform, stats
    bbox,        \* the user's minx, miny, maxx, maxy
    db,          \* the spatial database: reachable, the table spatial_points
    sess,        \* engine and session of the geoalchemy notebook
    exc,         \* the exception propagating in the current cell, or "none"
    errs,        \* cell -> "unrun", or the exception the cell ended with, or "none"
    log          \* the operations of the current cell, in order

vars == <<nb, pc, store, store0, hd, arr, cube, frames, meta, bbox, db, sess,
          exc, errs, log>>

----------------------------------------------------------------------------
\* Values

NoCrs == "none"
Wgs84 == "EPSG:4326"
Utm43 == "EPSG:32643"
CRSs == {NoCrs, Wgs84, Utm43}

Dims == 1..MaxDim
Vals == 0..MaxVal

Pixels(h, w) == (1..h) \X (1..w)
ConstBand(h, w, v) == [p \in Pixels(h, w) |-> v]

Absent == [exists |-> FALSE]
Unbound == [bound |-> FALSE]

\* A dataset's NoData value: none declared, or the sample value v.
NoNodata == [set |-> FALSE]
Nodata(v) == [set |-> TRUE, v |-> v]

RasterFiles == {"example.tif", "example2.tif", "red_band.tif", "nir_band.tif",
                "existing_raster.tif", "new_raster.tif", "reprojected.tif",
                "stacked.tif"}
VectorFiles == {"zones.shp", "path_to_your_file.shp", "another_file.shp",
                "output.geojson"}
Files == RasterFiles \cup VectorFiles

HandleVars == {"src", "dst", "red", "nir", "src1", "src2"}
ArrayVars == {"data", "array", "cropped", "ndvi", "raster"}
CubeVars == {"out_image", "stack"}
FrameVars == {"gdf", "another_gdf", "intersection", "joined", "zones", "geo"}

\* A raster file: georeferencing, band count, NoData value and samples.
Raster(crs, ox, oy, res, h, w, nodata, bands) ==
    [exists |-> TRUE, kind |-> "raster", crs |-> crs, ox |-> ox, oy |-> oy,
     res |-> res, h |-> h, w |-> w, count |-> Len(bands), nodata |-> nodata,
     bands |-> bands]

\* A numpy array of shape (h, w).
Array(h, w, px) == [bound |-> TRUE, h |-> h, w |-> w, px |-> px]

\* A numpy array of shape (n, h, w).
Cube(h, w, bands) ==
    [bound |-> TRUE, n |-> Len(bands), h |-> h, w |-> w, bands |-> bands]

----------------------------------------------------------------------------
\* The run: cells in order, statements within a cell.

RasterioCells == <<"open", "array", "create", "update", "mask", "crop",
                   "reproject", "zonal", "ndvi", "stack", "rasterize">>
GeopandasCells == <<"vread", "geometry", "sjoin">>
GeoalchemyCells == <<"connect", "table", "insert", "query", "distance",
                     "index", "bboxquery", "export">>

\* A run executes, in order, the cells of a notebook, or the cells of one of
\* its sections together with the cells that bind what the section reads.
CellsOf(n) ==
    CASE n = "rasterio" -> RasterioCells
      [] n = "rasterio/mask" -> <<"open", "mask">>
      [] n = "rasterio/zonal" -> <<"zonal">>
      [] n = "rasterio/ndvi" -> <<"ndvi">>
      [] n = "rasterio/stack" -> <<"stack">>
      [] n = "rasterio/reproject" -> <<"reproject">>
      [] n = "rasterio/reproject-again" -> <<"reproject">>
      [] n = "geopandas" -> GeopandasCells
      [] OTHER -> GeoalchemyCells

AllCells == {RasterioCells[i] : i \in DOMAIN RasterioCells}
            \cup {GeopandasCells[i] : i \in DOMAIN GeopandasCells}
            \cup {GeoalchemyCells[i] : i \in DOMAIN GeoalchemyCells}

\* The first statement of each cell.
FirstPc(cell) ==
    CASE cell = "open" -> "r_open"
      [] cell = "array" -> "a_read"
      [] cell = "create" -> "c_open"
      [] cell = "update" -> "u_open"
      [] cell = "mask" -> "m_geo"
      [] cell = "crop" -> "w_open"
      [] cell = "reproject" -> "p_open"
      [] cell = "zonal" -> "z_read"
      [] cell = "ndvi" -> "n_open_red"
      [] cell = "stack" -> "s_open1"
      [] cell = "rasterize" -> "t_rasterize"
      [] cell = "vread" -> "v_read"
      [] cell = "geometry" -> "v_buffer"
      [] cell = "sjoin" -> "v_sjoin"
      [] cell = "connect" -> "g_engine"
      [] cell = "table" -> "g_create_all"
      [] cell = "insert" -> "g_add"
      [] cell = "query" -> "g_query"
      [] cell = "distance" -> "g_distance"
      [] cell = "index" -> "g_index"
      [] cell = "bboxquery" -> "g_bbox"
      [] cell = "export" -> "g_from_postgis"
      [] OTHER -> "done"

\* The statements of each notebook, in the order the notebook has them.
RasterioStatements ==
    <<"r_open", "r_read", "r_exit", "a_read", "c_open", "c_write", "c_exit",
      "u_open", "u_write", "u_exit", "m_geo", "m_open", "m_mask", "m_exit",
      "w_open", "w_read", "w_exit", "p_open", "p_calc", "p_open_dst", "p_warp",
      "p_exit_dst", "p_exit_src", "z_read", "z_stats", "n_open_red",
      "n_open_nir", "n_calc", "n_exit_nir", "n_exit_red", "s_open1", "s_open2",
      "s_stack", "s_open_dst", "s_write", "s_exit_dst", "s_exit2", "s_exit1",
      "t_rasterize">>
GeopandasStatements ==
    <<"v_read", "v_write", "v_buffer", "v_read2", "v_overlay", "v_sjoin">>
GeoalchemyStatements ==
    <<"g_engine", "g_session", "g_create_all", "g_add", "g_commit", "g_query",
      "g_distance", "g_index", "g_bbox", "g_from_postgis", "g_to_file">>

IndexOf(seq, x) == CHOOSE i \in DOMAIN seq : seq[i] = x

\* The position of statement p in its notebook; the end of the run is last.
PcRank(p) ==
    LET all == RasterioStatements \o GeopandasStatements \o GeoalchemyStatements
    IN  IF p = "done" THEN Len(all) + 1 ELSE IndexOf(all, p)

\* The statement the kernel goes to when `cell` has ended.
AfterCell(cell) ==
    LET cells == CellsOf(nb)
        i == IndexOf(cells, cell)
    IN  IF i = Len(cells) THEN "done" ELSE FirstPc(cells[i + 1])

\* A faulty kernel, for comparison: a cell that raised is run again.
LeaveRetry(cell, e) ==
    /\ errs' = [errs EXCEPT ![cell] = e]
    /\ exc' = "none"
    /\ pc' = IF e = "none" THEN AfterCell(cell) ELSE FirstPc(cell)

\* The cell ends (normally, or with exception e): the kernel reports e and
\* goes on with the next cell.
Leave(cell, e) ==
    /\ errs' = [errs EXCEPT ![cell] = e]
    /\ exc' = "none"
    /\ pc' = AfterCell(cell)

\* One operation of the current cell: the component that performs it (the
\* reader opens, the accessor reads samples or features, the engine derives,
\* the writer persists) and the resource it works on.
Op(stage, what) == [stage |-> stage, what |-> what]

----------------------------------------------------------------------------
\* The raster library, as the cells call it.

\* The metadata a dataset object caches when it is opened (src.profile).
Profile(f) ==
    [crs |-> f.crs, ox |-> f.ox, oy |-> f.oy, res |-> f.res, h |-> f.h,
     w |-> f.w, count |-> f.count, nodata |-> f.nodata]

\* rasterio.open(name, mode) of an existing file: the dataset object.  Its
\* buffer holds the samples it will flush when it is closed.
Dataset(name, mode, f) ==
    [bound |-> TRUE, file |-> name, mode |-> mode, open |-> TRUE,
     prof |-> Profile(f), dirty |-> FALSE, buf |-> f.bands]

\* rasterio.open(name, 'w', **kwargs): the file the GTiff driver creates at
\* once, replacing whatever was there: the caller's georeferencing and shape,
\* every sample still zero.
Created(k) ==
    Raster(k.crs, k.ox, k.oy, k.res, k.h, k.w, k.nodata,
           [i \in 1..k.count |-> ConstBand(k.h, k.w, 0)])

\* dataset.read(1) of an open dataset: band 1 as an array of shape (h, w).
ReadBand(f, i) == Array(f.h, f.w, f.bands[i])

\* A faulty close, for comparison: a dataset nothing was written to rewrites
\* its file empty.
FlushedTruncating(f, d) ==
    IF d.dirty THEN [f EXCEPT !.bands = d.buf]
    ELSE [f EXCEPT !.bands = [i \in 1..f.count |-> ConstBand(f.h, f.w, 0)]]

\* Leaving a `with` block: the dataset flushes what was written and closes.
Flushed(f, d) == IF d.dirty THEN [f EXCEPT !.bands = d.buf] ELSE f

Closed(d) == [d EXCEPT !.open = FALSE, !.dirty = FALSE]

CloseHandle(v) ==
    /\ hd' = [hd EXCEPT ![v] = Closed(hd[v])]
    /\ store' = [store EXCEPT ![hd[v].file] = Flushed(store[hd[v].file], hd[v])]

\* Appending to the current cell's log; a cell's first statement starts it.
Logged(first, ops) == log' = IF first THEN ops ELSE log \o ops

\* Reading metadata (crs, transform, shape) of the dataset variable v outside
\* the `with` that opened it: NameError when the variable was never bound;
\* on a closed dataset the library either still holds the value it cached at
\* open (stale = TRUE) or refuses.
MetaError(v, stale) ==
    IF ~hd[v].bound THEN "NameError"
    ELSE IF ~hd[v].open /\ ~stale THEN "DatasetClosed"
    ELSE "none"

----------------------------------------------------------------------------
\* rasterio notebook, "Opening a Raster File"
\*   with rasterio.open('example.tif') as src:
\*       print(src.profile); data = src.read(1)

OpenSrc ==
    /\ pc = "r_open"
    /\ Logged(TRUE, <<Op("open_r", "example.tif")>>)
    /\ IF store["example.tif"].exists
       THEN /\ hd' = [hd EXCEPT !["src"] =
                        Dataset("example.tif", "r", store["example.tif"])]
            /\ pc' = "r_read"
            /\ UNCHANGED <<exc, errs>>
       ELSE /\ Leave("open", "ResourceNotFound")
            /\ UNCHANGED hd
    /\ UNCHANGED <<nb, store, store0, arr, cube, frames, meta, bbox, db, sess>>

ReadData ==
    /\ pc = "r_read"
    /\ arr' = [arr EXCEPT !["data"] = ReadBand(store[hd["src"].file], 1)]
    /\ Logged(FALSE, <<Op("read", "example.tif")>>)
    /\ pc' = "r_exit"
    /\ UNCHANGED <<nb, store, store0, hd, cube, frames, meta, bbox, db, sess,
                   exc, errs>>

ExitSrc ==
    /\ pc = "r_exit"
    /\ CloseHandle("src")
    /\ Logged(FALSE, <<Op("close", "example.tif")>>)
    /\ Leave("open", exc)
    /\ UNCHANGED <<nb, store0, arr, cube, frames, meta, bbox, db, sess>>

\* "Reading Raster as an Array":  array = src.read(1); print(array.shape)
\* src is the dataset the previous cell's `with` has closed (or was never
\* bound): a closed dataset reads no samples.
ReadArray ==
    /\ pc = "a_read"
    /\ Logged(TRUE, <<Op("read", "example.tif")>>)
    /\ IF ~hd["src"].bound THEN
            /\ Leave("array", "NameError")
            /\ UNCHANGED arr
       ELSE IF ~hd["src"].open THEN
            /\ Leave("array", "DatasetClosed")
            /\ UNCHANGED arr
       ELSE
            /\ arr' = [arr EXCEPT !["array"] = ReadBand(store[hd["src"].file], 1)]
            /\ Leave("array", "none")
    /\ UNCHANGED <<nb, store, store0, hd, cube, frames, meta, bbox, db, sess>>

----------------------------------------------------------------------------
\* "Creating a New Raster"
\*   with rasterio.open('new_raster.tif', 'w', driver='GTiff',
\*           height=data.shape[0], width=data.shape[1], count=1,
\*           dtype=data.dtype, crs=src.crs, transform=src.transform) as dst:
\*       dst.write(data, 1)

\* The keyword arguments of the call.
CreateKwargs ==
    [crs |-> hd["src"].prof.crs, ox |-> hd["src"].prof.ox,
     oy |-> hd["src"].prof.oy, res |-> hd["src"].prof.res,
     h |-> arr["data"].h, w |-> arr["data"].w, count |-> 1, nodata |-> NoNodata]

\* A faulty open, for comparison: a file that is there is kept as it is.
OpenWriteKeeping(v, name, k) ==
    IF store[name].exists
    THEN /\ store' = store
         /\ hd' = [hd EXCEPT ![v] = Dataset(name, "w", store[name])]
    ELSE /\ store' = [store EXCEPT ![name] = Created(k)]
         /\ hd' = [hd EXCEPT ![v] = Dataset(name, "w", Created(k))]

\* Opening `name` for writing with the keyword arguments k.
OpenWrite(v, name, k) ==
    /\ store' = [store EXCEPT ![name] = Created(k)]
    /\ hd' = [hd EXCEPT ![v] = Dataset(name, "w", Created(k))]

CreateOpen ==
    /\ pc = "c_open"
    /\ \E stale \in BOOLEAN :
         LET e == IF ~arr["data"].bound THEN "NameError"
                  ELSE MetaError("src", stale)
         IN  IF e # "none"
             THEN /\ Leave("create", e)
                  /\ Logged(TRUE, <<>>)
                  /\ UNCHANGED <<store, hd>>
             ELSE /\ OpenWrite("dst", "new_raster.tif", CreateKwargs)
                  /\ Logged(TRUE, <<Op("open_w", "new_raster.tif")>>)
                  /\ pc' = "c_write"
                  /\ UNCHANGED <<exc, errs>>
    /\ UNCHANGED <<nb, store0, arr, cube, frames, meta, bbox, db, sess>>

\* dst.write(a, i): the array must have the dataset's shape; the samples go to
\* the dataset's buffer.
WriteError(d, a) == IF a.h = d.prof.h /\ a.w = d.prof.w THEN "none" ELSE "ShapeMismatch"

Written(d, a, i) == [d EXCEPT !.buf = [d.buf EXCEPT ![i] = a.px], !.dirty = TRUE]

CreateWrite ==
    /\ pc = "c_write"
    /\ Logged(FALSE, <<Op("write", "new_raster.tif")>>)
    /\ IF WriteError(hd["dst"], arr["data"]) = "none"
       THEN /\ hd' = [hd EXCEPT !["dst"] = Written(hd["dst"], arr["data"], 1)]
            /\ UNCHANGED exc
       ELSE /\ exc' = WriteError(hd["dst"], arr["data"])
            /\ UNCHANGED hd
    /\ pc' = "c_exit"
    /\ UNCHANGED <<nb, store, store0, arr, cube, frames, meta, bbox, db, sess, errs>>

CreateExit ==
    /\ pc = "c_exit"
    /\ CloseHandle("dst")
    /\ Logged(FALSE, <<Op("close", "new_raster.tif")>>)
    /\ Leave("create", exc)
    /\ UNCHANGED <<nb, store0, arr, cube, frames, meta, bbox, db, sess>>

----------------------------------------------------------------------------
\* "Updating an Existing Raster"
\*   with rasterio.open('existing_raster.tif', 'r+') as dst:
\*       dst.write(array * 2, 1)

Doubled(a) == Array(a.h, a.w, [p \in Pixels(a.h, a.w) |-> 2 * a.px[p]])

UpdateOpen ==
    /\ pc = "u_open"
    /\ Logged(TRUE, <<Op("open_rw", "existing_raster.tif")>>)
    /\ IF store["existing_raster.tif"].exists
       THEN /\ hd' = [hd EXCEPT !["dst"] =
                        Dataset("existing_raster.tif", "r+",
                                store["existing_raster.tif"])]
            /\ pc' = "u_write"
            /\ UNCHANGED <<exc, errs>>
       ELSE /\ Leave("update", "ResourceNotFound")
            /\ UNCHANGED hd
    /\ UNCHANGED <<nb, store, store0, arr, cube, frames, meta, bbox, db, sess>>

UpdateWrite ==
    /\ pc = "u_write"
    /\ IF ~arr["array"].bound THEN
            /\ exc' = "NameError"
            /\ Logged(FALSE, <<>>)
            /\ UNCHANGED hd
       ELSE IF WriteError(hd["dst"], arr["array"]) # "none" THEN
            /\ exc' = "ShapeMismatch"
            /\ Logged(FALSE, <<Op("derive", "array"), Op("write", "existing_raster.tif")>>)
            /\ UNCHANGED hd
       ELSE
            /\ hd' = [hd EXCEPT !["dst"] = Written(hd["dst"], Doubled(arr["array"]), 1)]
            /\ Logged(FALSE, <<Op("derive", "array"), Op("write", "existing_raster.tif")>>)
            /\ UNCHANGED exc
    /\ pc' = "u_exit"
    /\ UNCHANGED <<nb, store, store0, arr, cube, frames, meta, bbox, db, sess, errs>>

UpdateExit ==
    /\ pc = "u_exit"
    /\ CloseHandle("dst")
    /\ Logged(FALSE, <<Op("close", "existing_raster.tif")>>)
    /\ Leave("update", exc)
    /\ UNCHANGED <<nb, store0, arr, cube, frames, meta, bbox, db, sess>>

----------------------------------------------------------------------------
\* Geometry: the notebooks' shapes are axis-aligned boxes (shapely box).

Box(minx, miny, maxx, maxy) ==
    [minx |-> minx, miny |-> miny, maxx |-> maxx, maxy |-> maxy]

Min(a, b) == IF a < b THEN a ELSE b
Max(a, b) == IF a > b THEN a ELSE b

FloorDiv(a, b) == a \div b
CeilDiv(a, b) == -((-a) \div b)

\* A GeoDataFrame: its CRS and its geometry column.
Frame(crs, geoms) == [bound |-> TRUE, crs |-> crs, geoms |-> geoms]

\* The world coordinates of the centre of pixel (r, c), rows and columns
\* counted from 1, under the transform of profile p.
CentreX(p, c) == p.ox + p.res * (c - 1) + p.res \div 2
CentreY(p, r) == p.oy - p.res * (r - 1) - p.res \div 2

\* Rasterization with all_touched=False: a pixel belongs to a shape when its
\* centre lies inside it.
CentreInside(p, r, c, g) ==
    /\ g.minx < CentreX(p, c) /\ CentreX(p, c) < g.maxx
    /\ g.miny < CentreY(p, r) /\ CentreY(p, r) < g.maxy

InAnyShape(p, r, c, shapes) ==
    \E i \in DOMAIN shapes : CentreInside(p, r, c, shapes[i])

\* The world extent a grid of h rows and w columns covers under (ox, oy, res).
Extent(ox, oy, res, h, w) == Box(ox, oy - res * h, ox + res * w, oy)

\* A faulty window, for comparison: start and stop both rounded down.
GeometryWindowTruncated(p, shapes) ==
    [c0 |-> FloorDiv(shapes[1].minx - p.ox, p.res),
     c1 |-> FloorDiv(shapes[1].maxx - p.ox, p.res),
     r0 |-> FloorDiv(p.oy - shapes[1].maxy, p.res),
     r1 |-> FloorDiv(p.oy - shapes[1].miny, p.res)]

\* rasterio.features.geometry_window: the shapes' bounds in pixel coordinates,
\* start rounded down and stop rounded up.  Columns c0..c1 and rows r0..r1
\* count pixel edges from 0.
GeometryWindow(p, shapes) ==
    LET I == DOMAIN shapes
        minx == CHOOSE x \in {shapes[i].minx : i \in I} :
                    \A i \in I : x <= shapes[i].minx
        maxx == CHOOSE x \in {shapes[i].maxx : i \in I} :
                    \A i \in I : x >= shapes[i].maxx
        miny == CHOOSE y \in {shapes[i].miny : i \in I} :
                    \A i \in I : y <= shapes[i].miny
        maxy == CHOOSE y \in {shapes[i].maxy : i \in I} :
                    \A i \in I : y >= shapes[i].maxy
    IN  [c0 |-> FloorDiv(minx - p.ox, p.res), c1 |-> CeilDiv(maxx - p.ox, p.res),
         r0 |-> FloorDiv(p.oy - maxy, p.res), r1 |-> CeilDiv(p.oy - miny, p.res)]

\* rasterio.windows.intersect with the raster's own window (0, 0, w, h).
WindowIntersects(win, p) ==
    /\ ~(win.c0 >= p.w \/ win.c1 <= 0)
    /\ ~(win.r0 >= p.h \/ win.r1 <= 0)

\* rasterio.windows.intersection with the raster's own window.
WindowClip(win, p) ==
    [c0 |-> Max(win.c0, 0), c1 |-> Min(win.c1, p.w),
     r0 |-> Max(win.r0, 0), r1 |-> Min(win.r1, p.h)]

\* The window mask(..., crop=True) reads.
CropWindow(p, shapes) == WindowClip(GeometryWindow(p, shapes), p)

\* dataset.window_transform(window).
WindowTransform(p, win) ==
    [ox |-> p.ox + p.res * win.c0, oy |-> p.oy - p.res * win.r0, res |-> p.res]

\* The value mask() writes outside the shapes: the dataset's NoData value, or
\* 0 when it has none.
FillValue(p) == IF p.nodata.set THEN p.nodata.v ELSE 0

\* rasterio.mask.mask(dataset, shapes, crop=True): every band over the crop
\* window, samples whose pixel centre is outside the shapes filled.
MaskImage(f, shapes) ==
    LET p == Profile(f)
        win == CropWindow(p, shapes)
        hh == win.r1 - win.r0
        ww == win.c1 - win.c0
    IN  Cube(hh, ww,
             [b \in 1..f.count |->
                [q \in Pixels(hh, ww) |->
                    IF InAnyShape(p, win.r0 + q[1], win.c0 + q[2], shapes)
                    THEN f.bands[b][<<win.r0 + q[1], win.c0 + q[2]>>]
                    ELSE FillValue(p)]])

MaskError(f, shapes) ==
    IF WindowIntersects(GeometryWindow(Profile(f), shapes), Profile(f))
    THEN "none" ELSE "NoOverlap"

----------------------------------------------------------------------------
\* "Applying a Mask"
\*   bbox = box(minx, miny, maxx, maxy)          (the four numbers are the user's)
\*   geo = gpd.GeoDataFrame({'geometry': [bbox]}, crs=src.crs)
\*   with rasterio.open('example.tif') as src:
\*       out_image, out_transform = mask(src, geo.geometry, crop=True)

MaskGeo ==
    /\ pc = "m_geo"
    /\ Logged(TRUE, <<>>)
    /\ \E stale \in BOOLEAN :
         IF MetaError("src", stale) # "none"
         THEN /\ Leave("mask", MetaError("src", stale))
              /\ UNCHANGED frames
         ELSE /\ frames' = [frames EXCEPT !["geo"] =
                              Frame(hd["src"].prof.crs, <<bbox>>)]
              /\ pc' = "m_open"
              /\ UNCHANGED <<exc, errs>>
    /\ UNCHANGED <<nb, store, store0, hd, arr, cube, meta, bbox, db, sess>>

MaskOpen ==
    /\ pc = "m_open"
    /\ Logged(FALSE, <<Op("open_r", "example.tif")>>)
    /\ IF store["example.tif"].exists
       THEN /\ hd' = [hd EXCEPT !["src"] =
                        Dataset("example.tif", "r", store["example.tif"])]
            /\ pc' = "m_mask"
            /\ UNCHANGED <<exc, errs>>
       ELSE /\ Leave("mask", "ResourceNotFound")
            /\ UNCHANGED hd
    /\ UNCHANGED <<nb, store, store0, arr, cube, frames, meta, bbox, db, sess>>

MaskApply ==
    /\ pc = "m_mask"
    /\ Logged(FALSE, <<Op("read", "example.tif"), Op("derive", "out_image")>>)
    /\ LET f == store[hd["src"].file]
           shapes == frames["geo"].geoms
       IN  IF MaskError(f, shapes) # "none"
           THEN /\ exc' = MaskError(f, shapes)
                /\ UNCHANGED <<cube, meta>>
           ELSE /\ cube' = [cube EXCEPT !["out_image"] = MaskImage(f, shapes)]
                /\ meta' = [meta EXCEPT !.out_transform =
                              [bound |-> TRUE,
                               t |-> WindowTransform(Profile(f),
                                                     CropWindow(Profile(f), shapes))]]
                /\ UNCHANGED exc
    /\ pc' = "m_exit"
    /\ UNCHANGED <<nb, store, store0, hd, arr, frames, bbox, db, sess, errs>>

MaskExit ==
    /\ pc = "m_exit"
    /\ CloseHandle("src")
    /\ Logged(FALSE, <<Op("close", "example.tif")>>)
    /\ Leave("mask", exc)
    /\ UNCHANGED <<nb, store0, arr, cube, frames, meta, bbox, db, sess>>

----------------------------------------------------------------------------
\* "Cropping to a Region"
\*   with rasterio.open('example.tif') as src:
\*       window = src.window(minx, miny, maxx, maxy)
\*       cropped = src.read(1, window=window)

CropOpen ==
    /\ pc = "w_open"
    /\ Logged(TRUE, <<Op("open_r", "example.tif")>>)
    /\ IF store["example.tif"].exists
       THEN /\ hd' = [hd EXCEPT !["src"] =
                        Dataset("example.tif", "r", store["example.tif"])]
            /\ pc' = "w_read"
            /\ UNCHANGED <<exc, errs>>
       ELSE /\ Leave("crop", "ResourceNotFound")
            /\ UNCHANGED hd
    /\ UNCHANGED <<nb, store, store0, arr, cube, frames, meta, bbox, db, sess>>

\* Band i of f over the pixel window win.
ReadWindow(f, i, win) ==
    Array(win.r1 - win.r0, win.c1 - win.c0,
          [q \in Pixels(win.r1 - win.r0, win.c1 - win.c0) |->
              f.bands[i][<<win.r0 + q[1], win.c0 + q[2]>>]])

\* The window's fractional edges are snapped to whole pixels by the library;
\* the model leaves the direction open: outward, or inward.
SnapWindow(p, g, outward) ==
    IF outward THEN GeometryWindow(p, <<g>>)
    ELSE [c0 |-> CeilDiv(g.minx - p.ox, p.res), c1 |-> FloorDiv(g.maxx - p.ox, p.res),
          r0 |-> CeilDiv(p.oy - g.maxy, p.res), r1 |-> FloorDiv(p.oy - g.miny, p.res)]

CropRead ==
    /\ pc = "w_read"
    /\ Logged(FALSE, <<Op("read", "example.tif")>>)
    /\ \E outward \in BOOLEAN :
         LET f == store[hd["src"].file]
             win == WindowClip(SnapWindow(Profile(f), bbox, outward), Profile(f))
         IN  IF win.c1 > win.c0 /\ win.r1 > win.r0
             THEN /\ arr' = [arr EXCEPT !["cropped"] = ReadWindow(f, 1, win)]
                  /\ UNCHANGED exc
             ELSE /\ exc' = "WindowError"
                  /\ UNCHANGED arr
    /\ pc' = "w_exit"
    /\ UNCHANGED <<nb, store, store0, hd, cube, frames, meta, bbox, db, sess, errs>>

CropExit ==
    /\ pc = "w_exit"
    /\ CloseHandle("src")
    /\ Logged(FALSE, <<Op("close", "example.tif")>>)
    /\ Leave("crop", exc)
    /\ UNCHANGED <<nb, store0, arr, cube, frames, meta, bbox, db, sess>>

----------------------------------------------------------------------------
\* "Reproject to Another CRS"
\*   dst_crs = 'EPSG:4326'
\*   with rasterio.open('example.tif') as src:
\*       transform, width, height = calculate_default_transform(
\*           src.crs, dst_crs, src.width, src.height, *src.bounds)
\*       kwargs = src.meta.copy()
\*       kwargs.update({'crs': dst_crs, 'transform': transform, ...})
\*       with rasterio.open('reprojected.tif', 'w', **kwargs) as dst:
\*           reproject(source=rasterio.band(src, 1),
\*                     destination=rasterio.band(dst, 1), ...,
\*                     resampling=Resampling.nearest)

dst_crs == Wgs84

\* calculate_default_transform: the grids the library may propose for the
\* destination.  A raster already in the target CRS keeps its grid; for
\* another CRS the coordinate mathematics is the library's, and the model
\* leaves the grid open: its origin, and its number of rows within the bounds.
DefaultGrids(p, crs) ==
    IF p.crs = crs
    THEN {[ox |-> p.ox, oy |-> p.oy, res |-> p.res, h |-> p.h, w |-> p.w]}
    ELSE {[ox |-> p.ox + dx, oy |-> p.oy, res |-> p.res, h |-> h2, w |-> p.w] :
            dx \in {0, p.res}, h2 \in Dims}

\* kwargs = src.meta.copy(); kwargs.update(crs, transform, width, height)
ReprojectKwargs(p, g) ==
    [crs |-> dst_crs, ox |-> g.ox, oy |-> g.oy, res |-> g.res, h |-> g.h,
     w |-> g.w, count |-> p.count, nodata |-> p.nodata]

\* reproject(..., Resampling.nearest) of one band onto the grid of k: on the
\* same grid every sample is its own nearest neighbour; on another grid the
\* model takes the source sample of the nearest index.
Warp(band, p, k) ==
    [q \in Pixels(k.h, k.w) |-> band[<<Min(q[1], p.h), Min(q[2], p.w)>>]]

ReprojectOpen ==
    /\ pc = "p_open"
    /\ Logged(TRUE, <<Op("open_r", "example.tif")>>)
    /\ IF store["example.tif"].exists
       THEN /\ hd' = [hd EXCEPT !["src"] =
                        Dataset("example.tif", "r", store["example.tif"])]
            /\ pc' = "p_calc"
            /\ UNCHANGED <<exc, errs>>
       ELSE /\ Leave("reproject", "ResourceNotFound")
            /\ UNCHANGED hd
    /\ UNCHANGED <<nb, store, store0, arr, cube, frames, meta, bbox, db, sess>>

ReprojectCalc ==
    /\ pc = "p_calc"
    /\ Logged(FALSE, <<Op("derive", "transform")>>)
    /\ IF hd["src"].prof.crs = NoCrs
       THEN /\ exc' = "CRSError"
            /\ pc' = "p_exit_src"
            /\ UNCHANGED meta
       ELSE /\ \E g \in DefaultGrids(hd["src"].prof, dst_crs) :
                 meta' = [meta EXCEPT !.kwargs =
                            [bound |-> TRUE, k |-> ReprojectKwargs(hd["src"].prof, g)]]
            /\ pc' = "p_open_dst"
            /\ UNCHANGED exc
    /\ UNCHANGED <<nb, store, store0, hd, arr, cube, frames, bbox, db, sess, errs>>

ReprojectOpenDst ==
    /\ pc = "p_open_dst"
    /\ Logged(FALSE, <<Op("open_w", "reprojected.tif")>>)
    /\ OpenWrite("dst", "reprojected.tif", meta.kwargs.k)
    /\ pc' = "p_warp"
    /\ UNCHANGED <<nb, store0, arr, cube, frames, meta, bbox, db, sess, exc, errs>>

\* The warp reads band 1 of src and writes band 1 of dst; it may fail (the
\* transformation cannot be computed, an I/O error).
ReprojectWarp ==
    /\ pc = "p_warp"
    /\ Logged(FALSE, <<Op("read", "example.tif"), Op("derive", "reprojected"),
                       Op("write", "reprojected.tif")>>)
    /\ \E ok \in BOOLEAN :
         IF ok
         THEN /\ hd' = [hd EXCEPT !["dst"] =
                          [hd["dst"] EXCEPT
                             !.buf = [hd["dst"].buf EXCEPT ![1] =
                                        Warp(store[hd["src"].file].bands[1],
                                             hd["src"].prof, meta.kwargs.k)],
                             !.dirty = TRUE]]
              /\ UNCHANGED exc
         ELSE /\ exc' = "WarpError"
              /\ UNCHANGED hd
    /\ pc' = "p_exit_dst"
    /\ UNCHANGED <<nb, store, store0, arr, cube, frames, meta, bbox, db, sess, errs>>

ReprojectExitDst ==
    /\ pc = "p_exit_dst"
    /\ CloseHandle("dst")
    /\ Logged(FALSE, <<Op("close", "reprojected.tif")>>)
    /\ pc' = "p_exit_src"
    /\ UNCHANGED <<nb, store0, arr, cube, frames, meta, bbox, db, sess, exc, errs>>

ReprojectExitSrc ==
    /\ pc = "p_exit_src"
    /\ CloseHandle("src")
    /\ Logged(FALSE, <<Op("close", "example.tif")>>)
    /\ Leave("reproject", exc)
    /\ UNCHANGED <<nb, store0, arr, cube, frames, meta, bbox, db, sess>>

----------------------------------------------------------------------------
\* Vector files.  A shapefile without a .prj has no CRS.  A GeoJSON file
\* carries a "crs" member only when the frame written had a CRS; read back
\* without one, its coordinates are WGS 84 by the format's definition.

Vector(driver, crs, geoms) ==
    [exists |-> TRUE, kind |-> "vector", driver |-> driver, crs |-> crs,
     geoms |-> geoms]

\* gpd.read_file(name) of an existing file.
ReadFile(f) ==
    Frame(IF f.driver = "GeoJSON" /\ f.crs = NoCrs THEN Wgs84 ELSE f.crs, f.geoms)

\* gdf.to_file(name, driver="GeoJSON"): the file written.
ToFile(g, driver) == Vector(driver, g.crs, g.geoms)

----------------------------------------------------------------------------
\* "Calculate Mean Value per Zone"
\*   zones = gpd.read_file('zones.shp')
\*   stats = zonal_stats(zones, 'example.tif', stats=['mean', 'max', 'min'])

RECURSIVE SumOver(_, _)
SumOver(band, S) ==
    IF S = {} THEN 0
    ELSE LET q == CHOOSE x \in S : TRUE
         IN  band[q] + SumOver(band, S \ {q})

\* The pixels of f whose centre lies inside zone z.
Covered(f, z) ==
    {q \in Pixels(f.h, f.w) : CentreInside(Profile(f), q[1], q[2], z)}

\* Of those, the ones that hold a measurement (not the NoData value).
ValidSamples(f, z) ==
    {q \in Covered(f, z) : ~(f.nodata.set /\ f.bands[1][q] = f.nodata.v)}

\* The record zonal_stats returns for a zone without a valid sample: every
\* statistic is None.
NoCoverage == [none |-> TRUE]

\* Faulty statistics, for comparison: a zone without a valid sample reports
\* zeros.
ZoneStatsZero(f, z) ==
    LET S == ValidSamples(f, z)
    IN  [none |-> FALSE, sum |-> SumOver(f.bands[1], S), n |-> Cardinality(S),
         max |-> IF S = {} THEN 0
                 ELSE CHOOSE v \in {f.bands[1][q] : q \in S} :
                         \A q \in S : f.bands[1][q] <= v,
         min |-> IF S = {} THEN 0
                 ELSE CHOOSE v \in {f.bands[1][q] : q \in S} :
                         \A q \in S : f.bands[1][q] >= v]

\* The statistics of one zone; the mean is the fraction sum / n.
ZoneStats(f, z) ==
    LET S == ValidSamples(f, z)
    IN  IF S = {} THEN NoCoverage
        ELSE [none |-> FALSE, sum |-> SumOver(f.bands[1], S), n |-> Cardinality(S),
              max |-> CHOOSE v \in {f.bands[1][q] : q \in S} :
                         \A q \in S : f.bands[1][q] <= v,
              min |-> CHOOSE v \in {f.bands[1][q] : q \in S} :
                         \A q \in S : f.bands[1][q] >= v]

\* zonal_stats(zones, raster): one record per zone, in the zones' order.
ZonalStats(zs, f) == [i \in DOMAIN zs.geoms |-> ZoneStats(f, zs.geoms[i])]

ZonalRead ==
    /\ pc = "z_read"
    /\ Logged(TRUE, <<Op("open_r", "zones.shp"), Op("read", "zones.shp")>>)
    /\ IF store["zones.shp"].exists
       THEN /\ frames' = [frames EXCEPT !["zones"] = ReadFile(store["zones.shp"])]
            /\ pc' = "z_stats"
            /\ UNCHANGED <<exc, errs>>
       ELSE /\ Leave("zonal", "ResourceNotFound")
            /\ UNCHANGED frames
    /\ UNCHANGED <<nb, store, store0, hd, arr, cube, meta, bbox, db, sess>>

\* zonal_stats opens the raster itself, reads it zone by zone and closes it.
ZonalCompute ==
    /\ pc = "z_stats"
    /\ Logged(FALSE, <<Op("open_r", "example.tif"), Op("read", "example.tif"),
                       Op("derive", "stats"), Op("close", "example.tif")>>)
    /\ IF store["example.tif"].exists
       THEN /\ meta' = [meta EXCEPT !.stats =
                          [bound |-> TRUE,
                           s |-> ZonalStats(frames["zones"], store["example.tif"])]]
            /\ Leave("zonal", "none")
       ELSE /\ Leave("zonal", "ResourceNotFound")
            /\ UNCHANGED meta
    /\ UNCHANGED <<nb, store, store0, hd, arr, cube, frames, bbox, db, sess>>

----------------------------------------------------------------------------
\* "Calculating NDVI"
\*   with rasterio.open('red_band.tif') as red, rasterio.open('nir_band.tif') as nir:
\*       red_band = red.read(1).astype('float32')
\*       nir_band = nir.read(1).astype('float32')
\*       ndvi = (nir_band - red_band) / (nir_band + red_band)

\* numpy's elementwise arithmetic broadcasts: two shapes go together when, in
\* each dimension, the extents are equal or one of them is 1.
Broadcastable(a, b) ==
    /\ a.h = b.h \/ a.h = 1 \/ b.h = 1
    /\ a.w = b.w \/ a.w = 1 \/ b.w = 1

\* The element of a that pixel q of the broadcast result reads.
At(a, q) == a.px[<<IF a.h = 1 THEN 1 ELSE q[1], IF a.w = 1 THEN 1 ELSE q[2]>>]

AlgebraError(a, b) == IF Broadcastable(a, b) THEN "none" ELSE "ShapeMismatch"

\* (nir - red) / (nir + red), each quotient kept as numerator and denominator
\* (a zero denominator is numpy's nan or inf, not an exception).
Ndvi(red_band, nir_band) ==
    Array(Max(red_band.h, nir_band.h), Max(red_band.w, nir_band.w),
          [q \in Pixels(Max(red_band.h, nir_band.h), Max(red_band.w, nir_band.w)) |->
              [num |-> At(nir_band, q) - At(red_band, q),
               den |-> At(nir_band, q) + At(red_band, q)]])

NdviOpenRed ==
    /\ pc = "n_open_red"
    /\ Logged(TRUE, <<Op("open_r", "red_band.tif")>>)
    /\ IF store["red_band.tif"].exists
       THEN /\ hd' = [hd EXCEPT !["red"] =
                        Dataset("red_band.tif", "r", store["red_band.tif"])]
            /\ pc' = "n_open_nir"
            /\ UNCHANGED <<exc, errs>>
       ELSE /\ Leave("ndvi", "ResourceNotFound")
            /\ UNCHANGED hd
    /\ UNCHANGED <<nb, store, store0, arr, cube, frames, meta, bbox, db, sess>>

NdviOpenNir ==
    /\ pc = "n_open_nir"
    /\ Logged(FALSE, <<Op("open_r", "nir_band.tif")>>)
    /\ IF store["nir_band.tif"].exists
       THEN /\ hd' = [hd EXCEPT !["nir"] =
                        Dataset("nir_band.tif", "r", store["nir_band.tif"])]
            /\ pc' = "n_calc"
            /\ UNCHANGED exc
       ELSE /\ exc' = "ResourceNotFound"
            /\ pc' = "n_exit_red"
            /\ UNCHANGED hd
    /\ UNCHANGED <<nb, store, store0, arr, cube, frames, meta, bbox, db, sess, errs>>

NdviCalc ==
    /\ pc = "n_calc"
    /\ Logged(FALSE, <<Op("read", "red_band.tif"), Op("read", "nir_band.tif"),
                       Op("derive", "ndvi")>>)
    /\ LET red_band == ReadBand(store[hd["red"].file], 1)
           nir_band == ReadBand(store[hd["nir"].file], 1)
       IN  IF AlgebraError(red_band, nir_band) # "none"
           THEN /\ exc' = AlgebraError(red_band, nir_band)
                /\ UNCHANGED arr
           ELSE /\ arr' = [arr EXCEPT !["ndvi"] = Ndvi(red_band, nir_band)]
                /\ UNCHANGED exc
    /\ pc' = "n_exit_nir"
    /\ UNCHANGED <<nb, store, store0, hd, cube, frames, meta, bbox, db, sess, errs>>

NdviExitNir ==
    /\ pc = "n_exit_nir"
    /\ CloseHandle("nir")
    /\ Logged(FALSE, <<Op("close", "nir_band.tif")>>)
    /\ pc' = "n_exit_red"
    /\ UNCHANGED <<nb, store0, arr, cube, frames, meta, bbox, db, sess, exc, errs>>

NdviExitRed ==
    /\ pc = "n_exit_red"
    /\ CloseHandle("red")
    /\ Logged(FALSE, <<Op("close", "red_band.tif")>>)
    /\ Leave("ndvi", exc)
    /\ UNCHANGED <<nb, store0, arr, cube, frames, meta, bbox, db, sess>>

----------------------------------------------------------------------------
\* "Stacking Multiple Bands"
\*   with rasterio.open('example.tif') as src1, rasterio.open('example2.tif') as src2:
\*       stack = np.stack([src1.read(1), src2.read(1)])
\*       with rasterio.open('stacked.tif', 'w', driver='GTiff',
\*               height=stack.shape[1], width=stack.shape[2],
\*               count=stack.shape[0], dtype=stack.dtype,
\*               crs=src1.crs, transform=src1.transform) as dst:
\*           dst.write(stack)

\* np.stack wants arrays of one shape.  Nothing else is compared: not the
\* CRS of the two datasets, not their transforms.
StackError(a, b) == IF a.h = b.h /\ a.w = b.w THEN "none" ELSE "ShapeMismatch"

Stack(a, b) == Cube(a.h, a.w, <<a.px, b.px>>)

\* The keyword arguments of the open of stacked.tif.
StackKwargs(d1, st) ==
    [crs |-> d1.prof.crs, ox |-> d1.prof.ox, oy |-> d1.prof.oy,
     res |-> d1.prof.res, h |-> st.h, w |-> st.w, count |-> st.n,
     nodata |-> NoNodata]

StackOpen1 ==
    /\ pc = "s_open1"
    /\ Logged(TRUE, <<Op("open_r", "example.tif")>>)
    /\ IF store["example.tif"].exists
       THEN /\ hd' = [hd EXCEPT !["src1"] =
                        Dataset("example.tif", "r", store["example.tif"])]
            /\ pc' = "s_open2"
            /\ UNCHANGED <<exc, errs>>
       ELSE /\ Leave("stack", "ResourceNotFound")
            /\ UNCHANGED hd
    /\ UNCHANGED <<nb, store, store0, arr, cube, frames, meta, bbox, db, sess>>

StackOpen2 ==
    /\ pc = "s_open2"
    /\ Logged(FALSE, <<Op("open_r", "example2.tif")>>)
    /\ IF store["example2.tif"].exists
       THEN /\ hd' = [hd EXCEPT !["src2"] =
                        Dataset("example2.tif", "r", store["example2.tif"])]
            /\ pc' = "s_stack"
            /\ UNCHANGED exc
       ELSE /\ exc' = "ResourceNotFound"
            /\ pc' = "s_exit1"
            /\ UNCHANGED hd
    /\ UNCHANGED <<nb, store, store0, arr, cube, frames, meta, bbox, db, sess, errs>>

StackBands ==
    /\ pc = "s_stack"
    /\ Logged(FALSE, <<Op("read", "example.tif"), Op("read", "example2.tif"),
                       Op("derive", "stack")>>)
    /\ LET a == ReadBand(store[hd["src1"].file], 1)
           b == ReadBand(store[hd["src2"].file], 1)
           e == StackError(a, b)
       IN  IF e # "none"
           THEN /\ exc' = e
                /\ pc' = "s_exit2"
                /\ UNCHANGED cube
           ELSE /\ cube' = [cube EXCEPT !["stack"] = Stack(a, b)]
                /\ pc' = "s_open_dst"
                /\ UNCHANGED exc
    /\ UNCHANGED <<nb, store, store0, hd, arr, frames, meta, bbox, db, sess, errs>>

StackOpenDst ==
    /\ pc = "s_open_dst"
    /\ Logged(FALSE, <<Op("open_w", "stacked.tif")>>)
    /\ OpenWrite("dst", "stacked.tif",
                 StackKwargs(hd["src1"], cube["stack"]))
    /\ pc' = "s_write"
    /\ UNCHANGED <<nb, store0, arr, cube, frames, meta, bbox, db, sess, exc, errs>>

\* dst.write(stack): every band of the dataset.
StackWrite ==
    /\ pc = "s_write"
    /\ Logged(FALSE, <<Op("write", "stacked.tif")>>)
    /\ hd' = [hd EXCEPT !["dst"] =
                [hd["dst"] EXCEPT !.buf = cube["stack"].bands, !.dirty = TRUE]]
    /\ pc' = "s_exit_dst"
    /\ UNCHANGED <<nb, store, store0, arr, cube, frames, meta, bbox, db, sess,
                   exc, errs>>

StackExitDst ==
    /\ pc = "s_exit_dst"
    /\ CloseHandle("dst")
    /\ Logged(FALSE, <<Op("close", "stacked.tif")>>)
    /\ pc' = "s_exit2"
    /\ UNCHANGED <<nb, store0, arr, cube, frames, meta, bbox, db, sess, exc, errs>>

StackExit2 ==
    /\ pc = "s_exit2"
    /\ CloseHandle("src2")
    /\ Logged(FALSE, <<Op("close", "example2.tif")>>)
    /\ pc' = "s_exit1"
    /\ UNCHANGED <<nb, store0, arr, cube, frames, meta, bbox, db, sess, exc, errs>>

StackExit1 ==
    /\ pc = "s_exit1"
    /\ CloseHandle("src1")
    /\ Logged(FALSE, <<Op("close", "example.tif")>>)
    /\ Leave("stack", exc)
    /\ UNCHANGED <<nb, store0, arr, cube, frames, meta, bbox, db, sess>>

----------------------------------------------------------------------------
\* "Rasterizing a Vector"
\*   shapes = [mapping(geometry) for geometry in zones.geometry]
\*   raster = rasterize(shapes, out_shape=src.shape, transform=src.transform)

\* rasterize(shapes, out_shape, transform): 1 where the pixel centre lies in a
\* shape, 0 elsewhere; the result is a bare array.
Rasterized(p, shapes) ==
    Array(p.h, p.w,
          [q \in Pixels(p.h, p.w) |->
              IF InAnyShape(p, q[1], q[2], shapes) THEN 1 ELSE 0])

Rasterize ==
    /\ pc = "t_rasterize"
    /\ Logged(TRUE, <<Op("derive", "raster")>>)
    /\ \E stale \in BOOLEAN :
         LET e == IF ~frames["zones"].bound THEN "NameError"
                  ELSE MetaError("src", stale)
         IN  IF e # "none"
             THEN /\ Leave("rasterize", e)
                  /\ UNCHANGED arr
             ELSE /\ arr' = [arr EXCEPT !["raster"] =
                               Rasterized(hd["src"].prof, frames["zones"].geoms)]
                  /\ Leave("rasterize", "none")
    /\ UNCHANGED <<nb, store, store0, hd, cube, frames, meta, bbox, db, sess>>

----------------------------------------------------------------------------
\* geopandas notebook

\* "Reading and Writing Vector Data"
\*   gdf = gpd.read_file("path_to_your_file.shp")
\*   gdf.to_file("output.geojson", driver="GeoJSON")
VectorRead ==
    /\ pc = "v_read"
    /\ Logged(TRUE, <<Op("open_r", "path_to_your_file.shp"),
                      Op("read", "path_to_your_file.shp")>>)
    /\ IF store["path_to_your_file.shp"].exists
       THEN /\ frames' = [frames EXCEPT !["gdf"] =
                            ReadFile(store["path_to_your_file.shp"])]
            /\ pc' = "v_write"
            /\ UNCHANGED <<exc, errs>>
       ELSE /\ Leave("vread", "ResourceNotFound")
            /\ UNCHANGED frames
    /\ UNCHANGED <<nb, store, store0, hd, arr, cube, meta, bbox, db, sess>>

VectorWrite ==
    /\ pc = "v_write"
    /\ Logged(FALSE, <<Op("open_w", "output.geojson"), Op("write", "output.geojson")>>)
    /\ store' = [store EXCEPT !["output.geojson"] = ToFile(frames["gdf"], "GeoJSON")]
    /\ Leave("vread", "none")
    /\ UNCHANGED <<nb, store0, hd, arr, cube, frames, meta, bbox, db, sess>>

\* "Basic Geometry Operations"
\*   gdf['buffered'] = gdf.geometry.buffer(100)
\*   gdf['centroid'] = gdf.geometry.centroid
\*   another_gdf = gpd.read_file("another_file.shp")
\*   intersection = gpd.overlay(gdf, another_gdf, how="intersection")
VectorBuffer ==
    /\ pc = "v_buffer"
    /\ IF frames["gdf"].bound
       THEN /\ Logged(TRUE, <<Op("derive", "buffered"), Op("derive", "centroid")>>)
            /\ pc' = "v_read2"
            /\ UNCHANGED <<exc, errs>>
       ELSE /\ Logged(TRUE, <<>>)
            /\ Leave("geometry", "NameError")
    /\ UNCHANGED <<nb, store, store0, hd, arr, cube, frames, meta, bbox, db, sess>>

VectorRead2 ==
    /\ pc = "v_read2"
    /\ Logged(FALSE, <<Op("open_r", "another_file.shp"), Op("read", "another_file.shp")>>)
    /\ IF store["another_file.shp"].exists
       THEN /\ frames' = [frames EXCEPT !["another_gdf"] =
                            ReadFile(store["another_file.shp"])]
            /\ pc' = "v_overlay"
            /\ UNCHANGED <<exc, errs>>
       ELSE /\ Leave("geometry", "ResourceNotFound")
            /\ UNCHANGED frames
    /\ UNCHANGED <<nb, store, store0, hd, arr, cube, meta, bbox, db, sess>>

\* The pairs (i, j) of rows of two frames, left rows first.
Pairs(n, m) == [k \in 1..(n * m) |-> <<((k - 1) \div m) + 1, ((k - 1) % m) + 1>>]

BoxIntersection(a, b) ==
    Box(Max(a.minx, b.minx), Max(a.miny, b.miny),
        Min(a.maxx, b.maxx), Min(a.maxy, b.maxy))

\* Two boxes share interior points.
Overlaps(a, b) ==
    LET c == BoxIntersection(a, b) IN c.minx < c.maxx /\ c.miny < c.maxy

\* Two boxes share a point (the predicate "intersects").
Intersects(a, b) ==
    LET c == BoxIntersection(a, b) IN c.minx <= c.maxx /\ c.miny <= c.maxy

\* gpd.overlay(left, right, how="intersection"): the polygons two rows share,
\* in the left frame's CRS.  When the frames' CRS differ the library warns and
\* computes on the coordinates as they are.
Overlay(left, right) ==
    LET both(pr) == Overlaps(left.geoms[pr[1]], right.geoms[pr[2]])
        hit == SelectSeq(Pairs(Len(left.geoms), Len(right.geoms)), both)
    IN  Frame(left.crs,
              [k \in DOMAIN hit |->
                  BoxIntersection(left.geoms[hit[k][1]], right.geoms[hit[k][2]])])

\* gpd.sjoin(left, right, how="inner", op="intersects"): one row per pair of
\* intersecting rows, with the left row's geometry and the left frame's CRS;
\* a CRS mismatch is a warning here too.
SJoin(left, right) ==
    LET both(pr) == Intersects(left.geoms[pr[1]], right.geoms[pr[2]])
        hit == SelectSeq(Pairs(Len(left.geoms), Len(right.geoms)), both)
    IN  Frame(left.crs, [k \in DOMAIN hit |-> left.geoms[hit[k][1]]])

VectorOverlay ==
    /\ pc = "v_overlay"
    /\ Logged(FALSE, <<Op("derive", "intersection")>>)
    /\ frames' = [frames EXCEPT !["intersection"] =
                    Overlay(frames["gdf"], frames["another_gdf"])]
    /\ Leave("geometry", "none")
    /\ UNCHANGED <<nb, store, store0, hd, arr, cube, meta, bbox, db, sess>>

\* "Spatial Joins"
\*   joined = gpd.sjoin(gdf, another_gdf, how="inner", op="intersects")
VectorSJoin ==
    /\ pc = "v_sjoin"
    /\ Logged(TRUE, <<Op("derive", "joined")>>)
    /\ IF frames["gdf"].bound /\ frames["another_gdf"].bound
       THEN /\ frames' = [frames EXCEPT !["joined"] =
                            SJoin(frames["gdf"], frames["another_gdf"])]
            /\ Leave("sjoin", "none")
       ELSE /\ Leave("sjoin", "NameError")
            /\ UNCHANGED frames
    /\ UNCHANGED <<nb, store, store0, hd, arr, cube, meta, bbox, db, sess>>

----------------------------------------------------------------------------
\* geoalchemy notebook.  The database is PostGIS behind the engine; the table
\* spatial_points may already be there, with the columns the notebook
\* declares ("points") or with others ("other").

Table(schema, rows) == [exists |-> TRUE, schema |-> schema, rows |-> rows]

\* from_shape(Point(12.971598, 77.594566), srid=4326) as a row.
NewPoint == [name |-> "Bangalore", crs |-> Wgs84]

\* What a statement sent to the database raises.
DbError(needTable) ==
    IF ~db.up THEN "OperationalError"
    ELSE IF needTable /\ (~db.table.exists \/ db.table.schema # "points")
    THEN "ProgrammingError"
    ELSE "none"

\* "Database Connection"
\*   engine = create_engine('postgresql://...')
\*   Session = sessionmaker(bind=engine)
\*   session = Session()
\* The engine connects lazily; nothing in the notebook closes the session or
\* disposes of the engine.
CreateEngine ==
    /\ pc = "g_engine"
    /\ Logged(TRUE, <<Op("open_rw", "engine")>>)
    /\ sess' = [sess EXCEPT !.engine = TRUE]
    /\ pc' = "g_session"
    /\ UNCHANGED <<nb, store, store0, hd, arr, cube, frames, meta, bbox, db, exc, errs>>

CreateSession ==
    /\ pc = "g_session"
    /\ Logged(FALSE, <<Op("open_rw", "session")>>)
    /\ sess' = [sess EXCEPT !.session = TRUE, !.open = TRUE]
    /\ Leave("connect", "none")
    /\ UNCHANGED <<nb, store, store0, hd, arr, cube, frames, meta, bbox, db>>

\* "Defining Spatial Tables":  Base.metadata.create_all(engine)
\* create_all checks first: a table of that name that exists is left as it
\* is, whatever its columns.  The connection goes back to the engine's pool,
\* which keeps it open.
CreateAll ==
    /\ pc = "g_create_all"
    /\ Logged(TRUE, <<Op("open_w", "spatial_points")>>)
    /\ IF DbError(FALSE) # "none"
       THEN /\ Leave("table", DbError(FALSE))
            /\ UNCHANGED <<db, sess>>
       ELSE /\ db' = IF db.table.exists THEN db
                     ELSE [db EXCEPT !.table = Table("points", <<>>)]
            /\ sess' = [sess EXCEPT !.pooled = 1]
            /\ Leave("table", "none")
    /\ UNCHANGED <<nb, store, store0, hd, arr, cube, frames, meta, bbox>>

\* "Inserting Spatial Data"
\*   new_point = SpatialPoint(name="Bangalore", location=point)
\*   session.add(new_point)
\*   session.commit()
SessionAdd ==
    /\ pc = "g_add"
    /\ Logged(TRUE, <<Op("derive", "new_point")>>)
    /\ sess' = [sess EXCEPT !.pending = <<NewPoint>>]
    /\ pc' = "g_commit"
    /\ UNCHANGED <<nb, store, store0, hd, arr, cube, frames, meta, bbox, db, exc, errs>>

\* commit flushes the pending row and ends the transaction.  When the flush
\* fails the notebook does not roll back; the model leaves open what the
\* library has done by itself: the session is left in the failed transaction
\* with the row still pending, or rolled back and empty.
SessionCommit ==
    /\ pc = "g_commit"
    /\ Logged(FALSE, <<Op("write", "spatial_points")>>)
    /\ IF DbError(TRUE) # "none"
       THEN /\ \E kept \in BOOLEAN :
                 sess' = IF kept THEN [sess EXCEPT !.failed = TRUE]
                         ELSE [sess EXCEPT !.pending = <<>>]
            /\ Leave("insert", DbError(TRUE))
            /\ UNCHANGED db
       ELSE /\ db' = [db EXCEPT !.table.rows = db.table.rows \o sess.pending]
            /\ sess' = [sess EXCEPT !.pending = <<>>, !.txn = FALSE, !.pooled = 1]
            /\ Leave("insert", "none")
    /\ UNCHANGED <<nb, store, store0, hd, arr, cube, frames, meta, bbox>>

\* session.query(...).all() / .scalar(): the session begins a transaction on
\* a connection and keeps it.
SessionQuery(at, cell) ==
    /\ pc = at
    /\ Logged(TRUE, <<Op("read", "spatial_points")>>)
    /\ IF sess.failed
       THEN /\ Leave(cell, "PendingRollbackError")
            /\ UNCHANGED sess
       ELSE IF DbError(TRUE) # "none"
       THEN /\ Leave(cell, DbError(TRUE))
            /\ sess' = [sess EXCEPT !.txn = db.up, !.pooled = IF db.up THEN 1 ELSE sess.pooled]
       ELSE /\ Leave(cell, "none")
            /\ sess' = [sess EXCEPT !.txn = TRUE, !.pooled = 1]
    /\ UNCHANGED <<nb, store, store0, hd, arr, cube, frames, meta, bbox, db>>

\* "Querying Spatial Data"
QueryPoints == SessionQuery("g_query", "query")

\* "Spatial Operations"
QueryDistance == SessionQuery("g_distance", "distance")

\* "Perform Complex Spatial Queries"
QueryBbox == SessionQuery("g_bbox", "bboxquery")

\* "Create Spatial Indexes":  engine.execute(DDL("CREATE INDEX ..."))
CreateIndex ==
    /\ pc = "g_index"
    /\ Logged(TRUE, <<Op("write", "spatial_points")>>)
    /\ Leave("index", DbError(TRUE))
    /\ sess' = [sess EXCEPT !.pooled = IF db.up THEN 1 ELSE sess.pooled]
    /\ UNCHANGED <<nb, store, store0, hd, arr, cube, frames, meta, bbox, db>>

\* "Export Data to GeoJSON"
\*   gdf = gpd.GeoDataFrame.from_postgis("SELECT ...", con=engine, geom_col='location')
\*   gdf.to_file("output.geojson", driver="GeoJSON")
\* No crs is passed: the frame takes the SRID of the first row, if any.
FromPostgis(t) ==
    Frame(IF t.rows = <<>> THEN NoCrs ELSE t.rows[1].crs,
          [i \in DOMAIN t.rows |-> Box(0, 0, 0, 0)])

ExportRead ==
    /\ pc = "g_from_postgis"
    /\ Logged(TRUE, <<Op("open_r", "spatial_points"), Op("read", "spatial_points")>>)
    /\ IF DbError(TRUE) # "none"
       THEN /\ Leave("export", DbError(TRUE))
            /\ UNCHANGED frames
       ELSE /\ frames' = [frames EXCEPT !["gdf"] = FromPostgis(db.table)]
            /\ pc' = "g_to_file"
            /\ UNCHANGED <<exc, errs>>
    /\ sess' = [sess EXCEPT !.pooled = IF db.up THEN 1 ELSE sess.pooled]
    /\ UNCHANGED <<nb, store, store0, hd, arr, cube, meta, bbox, db>>

ExportWrite ==
    /\ pc = "g_to_file"
    /\ Logged(FALSE, <<Op("open_w", "output.geojson"), Op("write", "output.geojson")>>)
    /\ store' = [store EXCEPT !["output.geojson"] = ToFile(frames["gdf"], "GeoJSON")]
    /\ Leave("export", "none")
    /\ UNCHANGED <<nb, store0, hd, arr, cube, frames, meta, bbox, db, sess>>

----------------------------------------------------------------------------
\* The files, the database and the user's box before the run.

\* An input raster of h rows and w columns: pixels 4 units wide, the lower
\* left corner of the grid at the origin.
InputRaster(crs, h, w, nodata, band) ==
    Raster(crs, 0, 4 * h, 4, h, w, nodata, <<band>>)

Gradient(h, w) == [q \in Pixels(h, w) |-> (q[1] + q[2]) % (MaxVal + 1)]

\* A band that holds a at pixel p and b everywhere else.
Spot(h, w, p, a, b) == [q \in Pixels(h, w) |-> IF q = p THEN a ELSE b]

\* Coordinates of the user's boxes and of the zones: on pixel edges (multiples
\* of 4) and inside pixels, from left of the grid to its right edge.
Coords == {x \in -4..(4 * MaxDim) : x % 4 \in {0, 3}}
Spans == {s \in Coords \X Coords : s[1] < s[2]}
FewSpans == {<<-4, -1>>, <<0, 4 * MaxDim>>, <<-1, 3>>, <<3, 4 * MaxDim - 1>>}
Boxes == {Box(x[1], y[1], x[2], y[2]) : x \in Spans, y \in FewSpans}

NoFiles == [f \in Files |-> Absent]
NoHandles == [v \in HandleVars |-> Unbound]
NoArrays == [v \in ArrayVars |-> Unbound]
NoCubes == [v \in CubeVars |-> Unbound]
NoFrames == [v \in FrameVars |-> Unbound]
NoMeta == [kwargs |-> Unbound, out_transform |-> Unbound, stats |-> Unbound]
NoSession == [engine |-> FALSE, session |-> FALSE, open |-> FALSE, pooled |-> 0,
              pending |-> <<>>, txn |-> FALSE, failed |-> FALSE]
NoDb == [up |-> TRUE, table |-> Absent]

InsideZone == Box(0, 0, 4, 4)
OutsideZone == Box(-4, -4, -1, -1)

\* A fresh kernel at the first cell of notebook n, over the files st.
Fresh(n, st, bx, d) ==
    /\ nb = n
    /\ pc = FirstPc(CellsOf(n)[1])
    /\ store = st
    /\ store0 = st
    /\ hd = NoHandles
    /\ arr = NoArrays
    /\ cube = NoCubes
    /\ frames = NoFrames
    /\ meta = NoMeta
    /\ bbox = bx
    /\ db = d
    /\ sess = NoSession
    /\ exc = "none"
    /\ errs = [c \in AllCells |-> "unrun"]
    /\ log = <<>>

InitRasterio ==
    \E example \in {Absent} \cup
                   {InputRaster(crs, h, MaxDim, NoNodata, Gradient(h, MaxDim)) :
                      crs \in CRSs, h \in {1, MaxDim}},
       example2 \in {InputRaster(crs, h, MaxDim, NoNodata, ConstBand(h, MaxDim, MaxVal)) :
                      crs \in {Wgs84, Utm43}, h \in {1, MaxDim}},
       red \in {InputRaster(Wgs84, h, MaxDim, NoNodata, ConstBand(h, MaxDim, 0)) :
                      h \in {1, MaxDim}},
       existing \in {Absent,
                     InputRaster(Wgs84, MaxDim, MaxDim, NoNodata,
                                 ConstBand(MaxDim, MaxDim, 0))},
       old \in {Absent, InputRaster(Utm43, 1, 1, Nodata(0), ConstBand(1, 1, MaxVal))},
       zones \in {Absent,
                  Vector("ESRI Shapefile", NoCrs, <<InsideZone, OutsideZone>>)},
       bx \in {Box(-1, -1, 3, 3), OutsideZone} :
         Fresh("rasterio",
               [NoFiles EXCEPT
                  !["example.tif"] = example,
                  !["example2.tif"] = example2,
                  !["red_band.tif"] = red,
                  !["nir_band.tif"] =
                      InputRaster(Wgs84, MaxDim, MaxDim, NoNodata,
                                  ConstBand(MaxDim, MaxDim, MaxVal)),
                  !["existing_raster.tif"] = existing,
                  !["new_raster.tif"] = old,
                  !["zones.shp"] = zones],
               bx, NoDb)

InitGeopandas ==
    \E shp \in {Absent} \cup
               {Vector("ESRI Shapefile", crs, <<InsideZone, OutsideZone>>) : crs \in CRSs},
       other \in {Absent} \cup
               {Vector("ESRI Shapefile", crs, <<Box(3, 3, 7, 7)>>) : crs \in {Wgs84, Utm43}},
       old \in {Absent, Vector("GeoJSON", Utm43, <<OutsideZone>>)} :
         Fresh("geopandas",
               [NoFiles EXCEPT
                  !["path_to_your_file.shp"] = shp,
                  !["another_file.shp"] = other,
                  !["output.geojson"] = old],
               InsideZone, NoDb)

InitGeoalchemy ==
    \E up \in BOOLEAN,
       t \in {Absent, Table("points", <<>>),
              Table("points", <<[name |-> "old", crs |-> NoCrs]>>),
              Table("other", <<>>)} :
         Fresh("geoalchemy", NoFiles, InsideZone, [up |-> up, table |-> t])

Init == InitRasterio \/ InitGeopandas \/ InitGeoalchemy

Next ==
    \/ OpenSrc \/ ReadData \/ ExitSrc
    \/ ReadArray
    \/ CreateOpen \/ CreateWrite \/ CreateExit
    \/ UpdateOpen \/ UpdateWrite \/ UpdateExit
    \/ MaskGeo \/ MaskOpen \/ MaskApply \/ MaskExit
    \/ CropOpen \/ CropRead \/ CropExit
    \/ ReprojectOpen \/ ReprojectCalc \/ ReprojectOpenDst \/ ReprojectWarp
    \/ ReprojectExitDst \/ ReprojectExitSrc
    \/ ZonalRead \/ ZonalCompute
    \/ NdviOpenRed \/ NdviOpenNir \/ NdviCalc \/ NdviExitNir \/ NdviExitRed
    \/ StackOpen1 \/ StackOpen2 \/ StackBands \/ StackOpenDst \/ StackWrite
    \/ StackExitDst \/ StackExit2 \/ StackExit1
    \/ Rasterize
    \/ VectorRead \/ VectorWrite \/ VectorBuffer \/ VectorRead2 \/ VectorOverlay
    \/ VectorSJoin
    \/ CreateEngine \/ CreateSession \/ CreateAll \/ SessionAdd \/ SessionCommit
    \/ QueryPoints \/ QueryDistance \/ CreateIndex \/ QueryBbox
    \/ ExportRead \/ ExportWrite

Spec == Init /\ [][Next]_vars

\* Runs of single sections, over more inputs.

\* "Applying a Mask" after "Opening a Raster File": every box of the user.
InitMask ==
    \E h \in Dims, w \in Dims, nd \in {NoNodata, Nodata(0)}, bx \in Boxes :
         Fresh("rasterio/mask",
               [NoFiles EXCEPT !["example.tif"] =
                                 InputRaster(Wgs84, h, w, nd, Gradient(h, w))],
               bx, NoDb)

NextMask ==
    \/ OpenSrc \/ ReadData \/ ExitSrc
    \/ MaskGeo \/ MaskOpen \/ MaskApply \/ MaskExit

SpecMask == InitMask /\ [][NextMask]_vars

\* "Calculate Mean Value per Zone": a zone anywhere and a zone outside the
\* raster, over rasters with and without a NoData value.
InitZonal ==
    \E p \in Pixels(MaxDim, MaxDim), a \in Vals, b \in Vals,
       nd \in {NoNodata, Nodata(0)}, z \in Boxes :
         Fresh("rasterio/zonal",
               [NoFiles EXCEPT
                  !["example.tif"] =
                      InputRaster(Wgs84, MaxDim, MaxDim, nd, Spot(MaxDim, MaxDim, p, a, b)),
                  !["zones.shp"] =
                      Vector("ESRI Shapefile", Wgs84, <<z, OutsideZone>>)],
               z, NoDb)

NextZonal == ZonalRead \/ ZonalCompute

SpecZonal == InitZonal /\ [][NextZonal]_vars

\* "Calculating NDVI": bands of every shape, up to one row or column more
\* than MaxDim so that some pairs of shapes cannot be broadcast.
InitAlgebra ==
    \E h1 \in 1..(MaxDim + 1), w1 \in Dims, h2 \in 1..(MaxDim + 1), w2 \in Dims,
       a \in Vals, b \in Vals :
         Fresh("rasterio/ndvi",
               [NoFiles EXCEPT
                  !["red_band.tif"] =
                      InputRaster(Wgs84, h1, w1, NoNodata, ConstBand(h1, w1, a)),
                  !["nir_band.tif"] =
                      InputRaster(Wgs84, h2, w2, NoNodata, ConstBand(h2, w2, b))],
               InsideZone, NoDb)

NextAlgebra == NdviOpenRed \/ NdviOpenNir \/ NdviCalc \/ NdviExitNir \/ NdviExitRed

SpecAlgebra == InitAlgebra /\ [][NextAlgebra]_vars

\* "Stacking Multiple Bands": two rasters of every CRS and shape.
InitStack ==
    \E c1 \in {Wgs84, Utm43}, c2 \in {Wgs84, Utm43},
       h1 \in Dims, h2 \in Dims, w \in Dims, v \in Vals :
         Fresh("rasterio/stack",
               [NoFiles EXCEPT
                  !["example.tif"] =
                      InputRaster(c1, h1, w, NoNodata, Gradient(h1, w)),
                  !["example2.tif"] =
                      InputRaster(c2, h2, w, NoNodata, ConstBand(h2, w, v))],
               InsideZone, NoDb)

NextStack ==
    \/ StackOpen1 \/ StackOpen2 \/ StackBands \/ StackOpenDst \/ StackWrite
    \/ StackExitDst \/ StackExit2 \/ StackExit1

SpecStack == InitStack /\ [][NextStack]_vars

\* "Reproject to Another CRS", and the section once more over its own result:
\* rasters of one band and of two, in the target CRS and in another.
InitReproject ==
    \E crs \in {Wgs84, Utm43}, h \in Dims, w \in Dims, n \in 1..2 :
         Fresh("rasterio/reproject",
               [NoFiles EXCEPT
                  !["example.tif"] =
                      Raster(crs, 0, 4 * h, 4, h, w, NoNodata,
                             [i \in 1..n |-> IF i = 1 THEN Gradient(h, w)
                                             ELSE ConstBand(h, w, MaxVal)])],
               InsideZone, NoDb)

\* The user takes reprojected.tif as the next example.tif and runs the section
\* again in a fresh kernel; reprojected.tif is still there from the first run.
ReprojectAgain ==
    /\ nb = "rasterio/reproject"
    /\ pc = "done"
    /\ errs["reproject"] = "none"
    /\ nb' = "rasterio/reproject-again"
    /\ pc' = "p_open"
    /\ store' = [store EXCEPT !["example.tif"] = store["reprojected.tif"]]
    /\ store0' = store'
    /\ hd' = NoHandles
    /\ arr' = NoArrays
    /\ cube' = NoCubes
    /\ frames' = NoFrames
    /\ meta' = NoMeta
    /\ sess' = NoSession
    /\ exc' = "none"
    /\ errs' = [c \in AllCells |-> "unrun"]
    /\ log' = <<>>
    /\ UNCHANGED <<bbox, db>>

NextReproject ==
    \/ ReprojectOpen \/ ReprojectCalc \/ ReprojectOpenDst \/ ReprojectWarp
    \/ ReprojectExitDst \/ ReprojectExitSrc
    \/ ReprojectAgain

SpecReproject == InitReproject /\ [][NextReproject]_vars

----------------------------------------------------------------------------
\* Properties

\* C1 - CRS guard: every transform of two inputs (stacking two rasters,
\* overlay and spatial join of two frames, zonal statistics of zones over a
\* raster) whose inputs' CRS identifiers differ, the inputs being acceptable
\* otherwise, ends with CrsMismatch and leaves no output: no file written, no
\* result bound.
C1_CrsGuard ==
    /\ (/\ errs["stack"] # "unrun"
        /\ hd["src1"].bound /\ hd["src2"].bound
        /\ hd["src1"].prof.crs # hd["src2"].prof.crs
        /\ hd["src1"].prof.h = hd["src2"].prof.h
        /\ hd["src1"].prof.w = hd["src2"].prof.w)
         => (/\ errs["stack"] = "CrsMismatch"
             /\ store["stacked.tif"] = store0["stacked.tif"]
             /\ ~cube["stack"].bound)
    /\ (/\ errs["geometry"] # "unrun"
        /\ frames["gdf"].bound /\ frames["another_gdf"].bound
        /\ frames["gdf"].crs # frames["another_gdf"].crs)
         => (errs["geometry"] = "CrsMismatch" /\ ~frames["intersection"].bound)
    /\ (/\ errs["sjoin"] # "unrun"
        /\ frames["gdf"].bound /\ frames["another_gdf"].bound
        /\ frames["gdf"].crs # frames["another_gdf"].crs)
         => (errs["sjoin"] = "CrsMismatch" /\ ~frames["joined"].bound)
    /\ (/\ errs["zonal"] # "unrun"
        /\ frames["zones"].bound /\ store["example.tif"].exists
        /\ frames["zones"].crs # store["example.tif"].crs)
         => (errs["zonal"] = "CrsMismatch" /\ ~meta.stats.bound)

\* C2 - round trip: after every write that completed, opening the destination
\* again gives the CRS, the transform and the band or feature count of what
\* was written.
C2_RoundTrip ==
    /\ errs["create"] = "none" =>
         LET again == Dataset("new_raster.tif", "r", store["new_raster.tif"]).prof
         IN  /\ again.crs = hd["src"].prof.crs
             /\ <<again.ox, again.oy, again.res>> =
                  <<hd["src"].prof.ox, hd["src"].prof.oy, hd["src"].prof.res>>
             /\ again.count = 1
    /\ errs["reproject"] = "none" =>
         LET again == Dataset("reprojected.tif", "r", store["reprojected.tif"]).prof
         IN  /\ again.crs = dst_crs
             /\ <<again.ox, again.oy, again.res>> =
                  <<meta.kwargs.k.ox, meta.kwargs.k.oy, meta.kwargs.k.res>>
             /\ again.count = meta.kwargs.k.count
    /\ errs["stack"] = "none" =>
         LET again == Dataset("stacked.tif", "r", store["stacked.tif"]).prof
         IN  /\ again.crs = hd["src1"].prof.crs
             /\ <<again.ox, again.oy, again.res>> =
                  <<hd["src1"].prof.ox, hd["src1"].prof.oy, hd["src1"].prof.res>>
             /\ again.count = cube["stack"].n
    /\ (errs["vread"] = "none" \/ errs["export"] = "none") =>
         LET again == ReadFile(store["output.geojson"])
         IN  /\ again.crs = frames["gdf"].crs
             /\ Len(again.geoms) = Len(frames["gdf"].geoms)

\* C3 - scoped release: when the run has ended, whatever its cells raised,
\* nothing it opened is still open and nothing it wrote is still unflushed:
\* no dataset, no session, no pooled connection, no pending row.
C3_ScopedRelease ==
    pc = "done" =>
        /\ \A v \in HandleVars : hd[v].bound => (~hd[v].open /\ ~hd[v].dirty)
        /\ ~sess.open
        /\ sess.pooled = 0
        /\ sess.pending = <<>>

\* C4 - no partial artifact: a cell that writes a file and ended with an
\* error has left its destination as it was before the run.
C4_NoPartialArtifact ==
    /\ errs["create"] \notin {"unrun", "none"} =>
          store["new_raster.tif"] = store0["new_raster.tif"]
    /\ errs["reproject"] \notin {"unrun", "none"} =>
          store["reprojected.tif"] = store0["reprojected.tif"]
    /\ errs["stack"] \notin {"unrun", "none"} =>
          store["stacked.tif"] = store0["stacked.tif"]
    /\ (errs["vread"] \notin {"unrun", "none"} \/ errs["export"] \notin {"unrun", "none"}) =>
          store["output.geojson"] = store0["output.geojson"]

C9_CropExtent ==
    meta.out_transform.bound =>
       LET f == store["example.tif"]
           t == meta.out_transform.t
       IN  Extent(t.ox, t.oy, t.res, cube["out_image"].h, cube["out_image"].w)
              = BoxIntersection(bbox, Extent(f.ox, f.oy, f.res, f.h, f.w))

\* C9, as the code has it - the cropped image covers the smallest rectangle of whole
\* input pixels that contains the intersection of the box with the input's
\* extent (the box's edges are moved outward to pixel edges); the transform
\* returned places its pixels there, so each output sample is the input
\* sample at the same place when the pixel centre is inside the box and the
\* fill value otherwise.  A box that shares no area with the input makes the
\* mask raise, and nothing is returned.
C9_CropExtentSnapped ==
    LET f == store0["example.tif"]
        X == Extent(f.ox, f.oy, f.res, f.h, f.w)
        I == BoxIntersection(bbox, X)
        area == I.minx < I.maxx /\ I.miny < I.maxy
    IN  /\ errs["mask"] = "none" => (meta.out_transform.bound /\ area)
        /\ errs["mask"] = "NoOverlap" => (~meta.out_transform.bound /\ ~area)
        /\ meta.out_transform.bound =>
             LET t == meta.out_transform.t
                 img == cube["out_image"]
                 E == Extent(t.ox, t.oy, t.res, img.h, img.w)
             IN  /\ t.res = f.res /\ img.n = f.count
                 /\ (E.minx - f.ox) % f.res = 0 /\ (f.oy - E.maxy) % f.res = 0
                 /\ X.minx <= E.minx /\ E.maxx <= X.maxx
                 /\ X.miny <= E.miny /\ E.maxy <= X.maxy
                 /\ E.minx <= I.minx /\ I.maxx <= E.maxx
                 /\ E.miny <= I.miny /\ I.maxy <= E.maxy
                 /\ I.minx < E.minx + f.res /\ E.maxx - f.res < I.maxx
                 /\ I.miny < E.miny + f.res /\ E.maxy - f.res < I.maxy
                 /\ \A q \in Pixels(img.h, img.w) :
                       LET cx == t.ox + t.res * (q[2] - 1) + t.res \div 2
                           cy == t.oy - t.res * (q[1] - 1) - t.res \div 2
                           r == ((f.oy - cy) \div f.res) + 1
                           c == ((cx - f.ox) \div f.res) + 1
                       IN  img.bands[1][q] =
                              IF /\ bbox.minx < cx /\ cx < bbox.maxx
                                 /\ bbox.miny < cy /\ cy < bbox.maxy
                              THEN f.bands[1][<<r, c>>]
                              ELSE IF f.nodata.set THEN f.nodata.v ELSE 0

\* A box whose edges lie inside pixels, cropped to the whole raster.
C9_Witness ==
    /\ errs["mask"] = "none"
    /\ bbox.minx % 4 = 3 /\ bbox.maxy % 4 = 3
    /\ cube["out_image"].h = MaxDim /\ cube["out_image"].w = MaxDim
    /\ meta.out_transform.t.ox = 0

\* C10 - band algebra shape check: arithmetic on two bands whose shapes
\* differ ends with ShapeMismatch and binds no result.
C10_ShapeCheck ==
    /\ (/\ errs["ndvi"] # "unrun"
        /\ hd["red"].bound /\ hd["nir"].bound
        /\ <<hd["red"].prof.h, hd["red"].prof.w>> # <<hd["nir"].prof.h, hd["nir"].prof.w>>)
         => (errs["ndvi"] = "ShapeMismatch" /\ ~arr["ndvi"].bound)
    /\ (/\ errs["stack"] # "unrun"
        /\ hd["src1"].bound /\ hd["src2"].bound
        /\ <<hd["src1"].prof.h, hd["src1"].prof.w>> # <<hd["src2"].prof.h, hd["src2"].prof.w>>)
         => (errs["stack"] = "ShapeMismatch" /\ ~cube["stack"].bound)

\* C11 - reprojection idempotence: reprojecting the result of a reprojection
\* to the same CRS gives that result again, and reprojecting a raster that is
\* already in the target CRS changes neither its CRS, nor its transform and
\* extent, nor its samples.
C11_Idempotence ==
    /\ (nb = "rasterio/reproject-again" /\ errs["reproject"] = "none")
         => store["reprojected.tif"] = store0["reprojected.tif"]
    /\ (/\ errs["reproject"] = "none"
        /\ store0["example.tif"].exists
        /\ store0["example.tif"].crs = dst_crs)
         => LET x == store0["example.tif"]
                y == store["reprojected.tif"]
            IN  /\ y.crs = x.crs
                /\ <<y.ox, y.oy, y.res, y.h, y.w>> = <<x.ox, x.oy, x.res, x.h, x.w>>
                /\ y.count = x.count
                /\ y.bands = x.bands

\* C12 - explicit CRS: in every state of a run every frame of features,
\* every dataset read, every array of samples (read, cropped, derived or
\* rasterized), every row waiting to be inserted and every file the run has
\* written carries a CRS identifier.
C12_ExplicitCrs ==
    /\ \A v \in FrameVars : frames[v].bound => frames[v].crs # NoCrs
    /\ \A v \in HandleVars : hd[v].bound => hd[v].prof.crs # NoCrs
    /\ \A v \in ArrayVars :
          arr[v].bound => ("crs" \in DOMAIN arr[v] /\ arr[v].crs # NoCrs)
    /\ \A v \in CubeVars :
          cube[v].bound => ("crs" \in DOMAIN cube[v] /\ cube[v].crs # NoCrs)
    /\ \A i \in DOMAIN sess.pending : sess.pending[i].crs # NoCrs
    /\ \A f \in Files :
          (store[f].exists /\ store[f] # store0[f]) => store[f].crs # NoCrs

\* C13 - no use after release: every read of samples or of metadata of a
\* dataset happens while the dataset is open.  No cell ends because it read a
\* closed dataset, and the cells that read src outside a `with` (array,
\* create, mask, rasterize) find it open.
C13_NoUseAfterRelease ==
    /\ \A c \in AllCells : errs[c] # "DatasetClosed"
    /\ errs["array"] = "none" => hd["src"].open
    /\ pc = "c_write" => hd["src"].open
    /\ pc = "m_open" => hd["src"].open
    /\ errs["rasterize"] = "none" => hd["src"].open

====
